---------------------------- MODULE Spec2Model ----------------------------
(***************************************************************************)
(* A model of morse.c: the encoder that packs a text into a bit buffer     *)
(* behind a 32-bit big-endian length header, and the double-buffered       *)
(* playback engine driven by morse_update.                                 *)
(*                                                                         *)
(* Characters are ASCII codes, a text is a sequence of them, a buffer is a *)
(* function from byte index to 0..255, and the two buffer pointers hold    *)
(* the name of the array they point to.                                    *)
(***************************************************************************)
EXTENDS Integers, Sequences, FiniteSets, TLC

(***************************************************************************)
(* Sizes.  morse.h sets MORSE_MAX_LEN to 1024 bytes; the model runs the    *)
(* same code on a smaller buffer so that texts of a few characters reach   *)
(* the capacity limit.  Nothing below depends on the value other than      *)
(* through this definition.                                                *)
(***************************************************************************)
MORSE_MAX_LEN == 7

OFFSET == 48

MAX_CHAR == 90

morse_dot_duration == 60

U8 == 2 ^ 8

SPACE == 32

Pow2(k) == 2 ^ k

\* (byte >> k) & 1
BitOf(byte, k) == (byte \div Pow2(k)) % 2

\* byte | (value << k), for value in {0, 1} and k in 0..7
OrBit(byte, value, k) ==
    IF value = 1 /\ BitOf(byte, k) = 0 THEN byte + Pow2(k) ELSE byte

BufIdx == 0 .. (MORSE_MAX_LEN - 1)

\* A static uint8_t array: zero-initialised.
ZeroBuf == [i \in BufIdx |-> 0]

toupper_AsIs(ch) == ch

\* toupper() in the C locale.
toupper(ch) == IF ch >= 97 /\ ch <= 122 THEN ch - 32 ELSE ch

\* The code table, indexed by (c - OFFSET) + 1.
letters ==
    << <<"-", "-", "-", "-", "-">>,   \* 0
       <<".", "-", "-", "-", "-">>,   \* 1
       <<".", ".", "-", "-", "-">>,   \* 2
       <<".", ".", ".", "-", "-">>,   \* 3
       <<".", ".", ".", ".", "-">>,   \* 4
       <<".", ".", ".", ".", ".">>,   \* 5
       <<"-", ".", ".", ".", ".">>,   \* 6
       <<"-", "-", ".", ".", ".">>,   \* 7
       <<"-", "-", "-", ".", ".">>,   \* 8
       <<"-", "-", "-", "-", ".">>,   \* 9
       <<>>, <<>>, <<>>, <<>>, <<>>, <<>>, <<>>,   \* 58..64
       <<".", "-">>,                  \* A
       <<"-", ".", ".", ".">>,        \* B
       <<"-", ".", "-", ".">>,        \* C
       <<"-", ".", ".">>,             \* D
       <<".">>,                       \* E
       <<".", ".", "-", ".">>,        \* F
       <<"-", "-", ".">>,             \* G
       <<".", ".", ".", ".">>,        \* H
       <<".", ".">>,                  \* I
       <<".", "-", "-", "-">>,        \* J
       <<"-", ".", "-">>,             \* K
       <<".", "-", ".", ".">>,        \* L
       <<"-", "-">>,                  \* M
       <<"-", ".">>,                  \* N
       <<"-", "-", "-">>,             \* O
       <<".", "-", "-", ".">>,        \* P
       <<"-", "-", ".", "-">>,        \* Q
       <<".", "-", ".">>,             \* R
       <<".", ".", ".">>,             \* S
       <<"-">>,                       \* T
       <<".", ".", "-">>,             \* U
       <<".", ".", ".", "-">>,        \* V
       <<".", "-", "-">>,             \* W
       <<"-", ".", ".", "-">>,        \* X
       <<"-", ".", "-", "-">>,        \* Y
       <<"-", "-", ".", ".">> >>      \* Z

(***************************************************************************)
(* The length header.                                                      *)
(***************************************************************************)
morse_len(buf) ==
    buf[0] * Pow2(24) + buf[1] * Pow2(16) + buf[2] * Pow2(8) + buf[3]

morse_encode_len(buf, bit_len) ==
    [buf EXCEPT ![0] = (bit_len \div Pow2(24)) % U8,
                ![1] = (bit_len \div Pow2(16)) % U8,
                ![2] = (bit_len \div Pow2(8)) % U8,
                ![3] = bit_len % U8]

(***************************************************************************)
(* morse_encode_bit: n bits of `value` from bit `index` on.  The result is *)
(* the buffer, the index after the run and the success flag; on reaching   *)
(* the limit the four header bytes are zeroed and the index is left as it  *)
(* was.  The bits written before the limit was reached stay written.       *)
(***************************************************************************)
\* if (!bit_index) buf[buf_index] = 0;
ClearByte(buf, i) == IF i % 8 = 0 THEN [buf EXCEPT ![i \div 8] = 0] ELSE buf

\* buf[buf_index] |= value << bit_index;
SetBit(buf, value, i) == [buf EXCEPT ![i \div 8] = OrBit(@, value, i % 8)]

ZeroHeader_Kept(buf) == buf

\* buf[0] = buf[1] = buf[2] = buf[3] = 0;
ZeroHeader(buf) == [buf EXCEPT ![0] = 0, ![1] = 0, ![2] = 0, ![3] = 0]

RECURSIVE EncodeBitLoop(_, _, _, _, _, _)
EncodeBitLoop(buf, value, i, index, n, limit) ==
    IF i < index + n
    THEN IF i >= limit
         THEN [buf |-> ZeroHeader(buf), index |-> index, ok |-> FALSE]
         ELSE EncodeBitLoop(SetBit(ClearByte(buf, i), value, i), value,
                            i + 1, index, n, limit)
    ELSE [buf |-> buf, index |-> index + n, ok |-> TRUE]

morse_encode_bit(buf, value, n, index, limit) ==
    EncodeBitLoop(buf, value, index, index, n, limit)

ElementUnits_AllDots(element) == 1

\* The number of `on' units of one element of a code-table entry.
ElementUnits(element) == IF element = "." THEN 1 ELSE 3

(***************************************************************************)
(* The element loop of morse_encode_char: one `off' unit, then the         *)
(* element.  st is what the last morse_encode_bit gave, [buf, index, ok];  *)
(* a failed one ends the loop.  k is the position in the series.           *)
(***************************************************************************)
EncodeOn(gap, element, limit) ==
    IF ~gap.ok THEN gap
    ELSE morse_encode_bit(gap.buf, 1, ElementUnits(element), gap.index, limit)

EncodeElement_NoGap(st, element, limit) == EncodeOn(st, element, limit)

EncodeElement(st, element, limit) ==
    EncodeOn(morse_encode_bit(st.buf, 0, 1, st.index, limit), element, limit)

RECURSIVE EncodeSeries(_, _, _, _)
EncodeSeries(st, series, k, limit) ==
    IF ~st.ok \/ k > Len(series)
    THEN st
    ELSE EncodeSeries(EncodeElement(st, series[k], limit), series, k + 1,
                      limit)

\* Whether morse_encode_char rejects the upper-cased character c.
InvalidChar(c) == c < OFFSET \/ c > MAX_CHAR

\* What morse_encode_char returns after its last morse_encode_bit: 0 for a
\* failure, else the uint8_t i - index.
CharLen(st, index) == IF ~st.ok THEN 0 ELSE (st.index - index) % U8

CharResult(st, index) == [buf |-> st.buf, len |-> CharLen(st, index)]

(***************************************************************************)
(* morse_encode_char: [buf, len], len being the uint8_t the function       *)
(* returns: the number of bits written, or 0 for a failure.                *)
(***************************************************************************)
morse_encode_char(buf, ch, index, limit) ==
    IF toupper(ch) = SPACE
    THEN CharResult(morse_encode_bit(buf, 0, 4, index, limit), index)
    ELSE IF InvalidChar(toupper(ch))
         THEN [buf |-> buf, len |-> 0]
         ELSE CharResult(
                  EncodeSeries(morse_encode_bit(buf, 0, 2, index, limit),
                               letters[(toupper(ch) - OFFSET) + 1], 1, limit),
                  index)

\* The number of spaces morse_encode appends after the text.
PaddingChars == 3

Padding == [j \in 1 .. PaddingChars |-> SPACE]

(***************************************************************************)
(* morse_encode: the characters of s, then the padding, then the length    *)
(* header.  st is [buf, i, ok]: the buffer, the bit index i and whether    *)
(* every character so far was encoded; a character whose length comes back *)
(* 0 ends the call with the buffer as that character left it.  The bit     *)
(* index never passes bit_size, so the uint32_t arithmetic on it cannot    *)
(* wrap.                                                                   *)
(***************************************************************************)
AddChar(st, r) ==
    IF r.len = 0
    THEN [buf |-> r.buf, i |-> st.i, ok |-> FALSE]
    ELSE [buf |-> r.buf, i |-> st.i + r.len, ok |-> TRUE]

RECURSIVE EncodeChars(_, _, _, _)
EncodeChars(st, s, k, bit_size) ==
    IF ~st.ok \/ k > Len(s)
    THEN st
    ELSE EncodeChars(AddChar(st, morse_encode_char(st.buf, s[k], st.i,
                                                   bit_size)),
                     s, k + 1, bit_size)

EncodeResult(st) ==
    IF ~st.ok
    THEN [buf |-> st.buf, ok |-> FALSE]
    ELSE [buf |-> morse_encode_len(st.buf, st.i - 32), ok |-> TRUE]

morse_encode(buf, s, size) ==
    IF size < 4
    THEN [buf |-> buf, ok |-> FALSE]
    ELSE EncodeResult(
             EncodeChars(
                 EncodeChars([buf |-> buf, i |-> 32, ok |-> TRUE], s, 1,
                             size * 8),
                 Padding, 1, size * 8))

(***************************************************************************)
(* morse_bit: the bit at bit_index of the content region.  InBuffer says   *)
(* whether the byte it reads lies inside the array.                        *)
(***************************************************************************)
ReadPos(bit_index) == bit_index + 32

InBuffer(bit_index) == ReadPos(bit_index) \div 8 < MORSE_MAX_LEN

morse_bit(buf, bit_index) ==
    BitOf(buf[ReadPos(bit_index) \div 8], ReadPos(bit_index) % 8) = 1

(***************************************************************************)
(* uint32_t values that may pass 2^31 - 1 (the elapsed_ms argument and the *)
(* sum morse_update forms from it) are kept as two 16-bit halves.          *)
(***************************************************************************)
Half == 2 ^ 16

U32Of(hi, lo) == [hi |-> hi, lo |-> lo]

ToU32(n) == U32Of(n \div Half, n % Half)

\* (a + b) mod 2^32
AddU32(a, b) ==
    LET lo == a.lo + b.lo
        hi == a.hi + b.hi + (lo \div Half)
    IN  U32Of(hi % Half, lo % Half)

\* Whether a + b passes 2^32 - 1, so that AddU32 wraps.
WrapsU32(a, b) == a.hi + b.hi + ((a.lo + b.lo) \div Half) >= Half

\* a / d for 2 <= d <= 2^15: long division over the two halves.
DivU32(a, d) ==
    (a.hi \div d) * Half + (((a.hi % d) * Half + a.lo) \div d)

\* The value of a, which must be below 2^31.
FromU32(a) == a.hi * Half + a.lo

(***************************************************************************)
(* The engine's static variables as one record m; a buffer pointer holds   *)
(* the name of the array it points to, and m[p] is the array p points to.  *)
(***************************************************************************)
morse_switch_buf_KeepsNext(m) ==
    IF m.morse_live_buf = "morse_buf1"
    THEN [m EXCEPT !.morse_live_buf = "morse_buf2",
                   !.morse_next_buf = "morse_buf1",
                   !.morse_repeat = m.morse_repeat_next,
                   !.morse_repeat_next = FALSE]
    ELSE [m EXCEPT !.morse_live_buf = "morse_buf1",
                   !.morse_next_buf = "morse_buf2",
                   !.morse_repeat = m.morse_repeat_next,
                   !.morse_repeat_next = FALSE]

morse_switch_buf(m) ==
    LET swapped == IF m.morse_live_buf = "morse_buf1"
                   THEN [m EXCEPT !.morse_live_buf = "morse_buf2",
                                  !.morse_next_buf = "morse_buf1"]
                   ELSE [m EXCEPT !.morse_live_buf = "morse_buf1",
                                  !.morse_next_buf = "morse_buf2"]
        flags == [swapped EXCEPT !.morse_repeat = m.morse_repeat_next,
                                 !.morse_repeat_next = FALSE]
    IN  [flags EXCEPT ![flags.morse_next_buf] =
                          morse_encode_len(flags[flags.morse_next_buf], 0)]

StoreNext_KeepsRepeat(m, e, repeat) ==
    [m |-> [m EXCEPT ![m.morse_next_buf] = e.buf,
                     !.morse_repeat_next = repeat],
     ok |-> e.ok]

StoreNext_RepeatsNow(m, e, repeat) ==
    [m |-> [m EXCEPT ![m.morse_next_buf] = e.buf,
                     !.morse_repeat_next = repeat,
                     !.morse_repeat = repeat],
     ok |-> e.ok]

\* morse(s, repeat): the engine after the call, and what morse_encode
\* returned (the call itself drops it).  e is morse_encode's result.
StoreNext(m, e, repeat) ==
    [m |-> [m EXCEPT ![m.morse_next_buf] = e.buf,
                     !.morse_repeat_next = repeat,
                     !.morse_repeat = FALSE],
     ok |-> e.ok]

morse_IntoLive(m, s, repeat) ==
    [m |-> [m EXCEPT ![m.morse_live_buf] =
                         morse_encode(m[m.morse_live_buf], s,
                                      MORSE_MAX_LEN).buf,
                     !.morse_repeat_next = repeat,
                     !.morse_repeat = FALSE],
     ok |-> morse_encode(m[m.morse_live_buf], s, MORSE_MAX_LEN).ok]

morse(m, s, repeat) ==
    StoreNext(m, morse_encode(m[m.morse_next_buf], s, MORSE_MAX_LEN), repeat)

(***************************************************************************)
(* morse_update(elapsed_ms): the engine after the call, whether morse_cb   *)
(* was called, and the bit index handed to morse_bit.  wrapped records     *)
(* that elapsed_time + elapsed_ms passed 2^32 - 1.  The time kept in       *)
(* morse_elapsed_time is below live_len * morse_dot_duration whenever it   *)
(* is not reset, so it is held as a plain number.                          *)
(***************************************************************************)
NothingToPlay_Never(m) == FALSE

\* if (!live_len && !morse_len(morse_next_buf)) return;
NothingToPlay(m) ==
    morse_len(m[m.morse_live_buf]) = 0 /\ morse_len(m[m.morse_next_buf]) = 0

EndOfPass_AlwaysSwitch(m) == morse_switch_buf(m)

\* if (!morse_repeat) morse_switch_buf();
EndOfPass(m) == IF ~m.morse_repeat THEN morse_switch_buf(m) ELSE m

morse_update(m, elapsed_ms) ==
    LET live_len == morse_len(m[m.morse_live_buf])
    IN  IF NothingToPlay(m)
        THEN [m |-> m, called |-> FALSE, bit_index |-> 0, live_len |-> 0,
              wrapped |-> FALSE]
        ELSE LET sum == AddU32(ToU32(m.morse_elapsed_time), elapsed_ms)
                 bit_index == DivU32(sum, morse_dot_duration)
                 after == IF bit_index >= live_len
                          THEN [EndOfPass(m) EXCEPT !.morse_elapsed_time = 0]
                          ELSE [m EXCEPT !.morse_elapsed_time = FromU32(sum)]
             IN  [m |-> after, called |-> TRUE, bit_index |-> bit_index,
                  live_len |-> live_len,
                  wrapped |-> WrapsU32(ToU32(m.morse_elapsed_time),
                                       elapsed_ms)]

morse_stop(m) == [m EXCEPT !.morse_repeat = FALSE]

morse_interrupt_KeepsLength(m) == [m EXCEPT !.morse_repeat = FALSE]

morse_interrupt(m) ==
    [m EXCEPT ![m.morse_live_buf] = morse_encode_len(m[m.morse_live_buf], 0),
              !.morse_repeat = FALSE]

SinkValues_FromStart(m, bit_index) == {morse_bit(m[m.morse_live_buf], 0)}

\* The values morse_cb can be called with for bit_index: the bit morse_bit
\* reads, or, the read being outside the array, whatever lies there.
SinkValues(m, bit_index) ==
    IF InBuffer(bit_index)
    THEN {morse_bit(m[m.morse_live_buf], bit_index)}
    ELSE BOOLEAN

(***************************************************************************)
(* The state: the static variables of morse.c, and what an observer of the *)
(* calls records.                                                          *)
(*   last        the last call made, with its arguments and what it did    *)
(*               (for morse_update: whether morse_cb was called and with   *)
(*               which value)                                              *)
(*   repeat_run  the run of ticks that follows morse(s, true) made with    *)
(*               both buffers empty                                        *)
(*   quiet       an interrupt left both buffers empty and no morse() call  *)
(*               was made since                                            *)
(*   phase, aux  the position in a scenario, and what it remembers         *)
(***************************************************************************)
VARIABLES morse_buf1, morse_buf2, morse_live_buf, morse_next_buf,
          morse_repeat, morse_repeat_next, morse_elapsed_time,
          last, repeat_run, quiet, phase, aux

engine_vars == <<morse_buf1, morse_buf2, morse_live_buf, morse_next_buf,
                 morse_repeat, morse_repeat_next, morse_elapsed_time>>

vars == <<morse_buf1, morse_buf2, morse_live_buf, morse_next_buf,
          morse_repeat, morse_repeat_next, morse_elapsed_time,
          last, repeat_run, quiet, phase, aux>>

Engine ==
    [morse_buf1 |-> morse_buf1, morse_buf2 |-> morse_buf2,
     morse_live_buf |-> morse_live_buf, morse_next_buf |-> morse_next_buf,
     morse_repeat |-> morse_repeat, morse_repeat_next |-> morse_repeat_next,
     morse_elapsed_time |-> morse_elapsed_time]

SetEngine(m) ==
    /\ morse_buf1' = m.morse_buf1
    /\ morse_buf2' = m.morse_buf2
    /\ morse_live_buf' = m.morse_live_buf
    /\ morse_next_buf' = m.morse_next_buf
    /\ morse_repeat' = m.morse_repeat
    /\ morse_repeat_next' = m.morse_repeat_next
    /\ morse_elapsed_time' = m.morse_elapsed_time

LiveBuf == Engine[morse_live_buf]

NextBuf == Engine[morse_next_buf]

LiveLen(m) == morse_len(m[m.morse_live_buf])

NextLen(m) == morse_len(m[m.morse_next_buf])

BothEmpty(m) == LiveLen(m) = 0 /\ NextLen(m) = 0

(***************************************************************************)
(* The inputs of the engine.  Texts: "E", "EEE" (with MORSE_MAX_LEN = 7 it *)
(* fills the buffer to its last bit) and "Hi!" (an invalid character after *)
(* two valid ones).  Ticks: 0 ms, one dot, and 2^32 - 60 ms, which wraps   *)
(* elapsed_time when that is 60 or more and sends the bit index far past   *)
(* any message otherwise.                                                  *)
(***************************************************************************)
Texts == { <<69>>, <<69, 69, 69>>, <<72, 105, 33>> }

LongTick == U32Of(65535, 65476)

ElapsedMs == { ToU32(0), ToU32(60), LongTick }

(***************************************************************************)
(* The inputs of the encoder alone: the texts above and "", "e", "e e",    *)
(* "E E", "et", "a", "0" (passes the limit inside the padding), "00"       *)
(* (passes it inside the text), ":" (a character between '9' and 'A') and  *)
(* "[" (the character after 'Z').                                          *)
(***************************************************************************)
EncoderTexts ==
    Texts \cup
    { <<>>, <<101>>, <<101, 32, 101>>, <<69, 32, 69>>, <<101, 116>>,
      <<97>>, <<48>>, <<48, 48>>, <<58>>, <<91>> }

NoRun == [on |-> FALSE]

Init ==
    /\ morse_buf1 = ZeroBuf
    /\ morse_buf2 = ZeroBuf
    /\ morse_live_buf = "morse_buf1"
    /\ morse_next_buf = "morse_buf2"
    /\ morse_repeat = FALSE
    /\ morse_repeat_next = FALSE
    /\ morse_elapsed_time = 0
    /\ last = [op |-> "none"]
    /\ repeat_run = NoRun
    /\ quiet = FALSE
    /\ phase = "start"
    /\ aux = [on |-> FALSE]

\* A count that stops at 2: 0, 1, many.
Capped(n) == IF n >= 2 THEN 2 ELSE n

(***************************************************************************)
(* morse(s, repeat)                                                        *)
(***************************************************************************)
Morse(s, repeat) ==
    \E r \in {morse(Engine, s, repeat)} :
        /\ SetEngine(r.m)
        /\ last' = [op |-> "morse", s |-> s, repeat |-> repeat, ok |-> r.ok,
                    len_before |-> NextLen(Engine)]
        /\ repeat_run' = IF BothEmpty(Engine) /\ repeat /\ r.ok
                         THEN [on |-> TRUE, s |-> s, ticks |-> 0,
                               swaps |-> 0]
                         ELSE NoRun
        /\ quiet' = FALSE

(***************************************************************************)
(* morse_update(elapsed_ms), with morse_cb recording its argument.         *)
(***************************************************************************)
Update(elapsed_ms) ==
    \E r \in {morse_update(Engine, elapsed_ms)} :
        /\ SetEngine(r.m)
        /\ \E v \in (IF r.called THEN SinkValues(r.m, r.bit_index)
                     ELSE {FALSE}) :
              last' = [op |-> "update", elapsed_ms |-> elapsed_ms,
                       called |-> r.called, value |-> v,
                       bit_index |-> r.bit_index, live_len |-> r.live_len,
                       wrapped |-> r.wrapped]
        /\ repeat_run' =
              IF repeat_run.on
              THEN [repeat_run EXCEPT
                      !.ticks = Capped(@ + 1),
                      !.swaps = Capped(@ + (IF r.m.morse_live_buf
                                                 # morse_live_buf
                                            THEN 1 ELSE 0))]
              ELSE repeat_run
        /\ quiet' = quiet

(***************************************************************************)
(* morse_stop()                                                            *)
(***************************************************************************)
Stop ==
    /\ SetEngine(morse_stop(Engine))
    /\ last' = [op |-> "stop"]
    /\ repeat_run' = NoRun
    /\ quiet' = quiet

(***************************************************************************)
(* morse_interrupt()                                                       *)
(***************************************************************************)
Interrupt ==
    /\ SetEngine(morse_interrupt(Engine))
    /\ last' = [op |-> "interrupt"]
    /\ repeat_run' = NoRun
    /\ quiet' = (quiet \/ NextLen(Engine) = 0)

(***************************************************************************)
(* Any sequence of calls.                                                  *)
(***************************************************************************)
Submit == \E s \in Texts, repeat \in BOOLEAN : Morse(s, repeat)

Tick == \E elapsed_ms \in ElapsedMs : Update(elapsed_ms)

Next ==
    \/ Submit /\ UNCHANGED <<phase, aux>>
    \/ Tick /\ UNCHANGED <<phase, aux>>
    \/ Stop /\ UNCHANGED <<phase, aux>>
    \/ Interrupt /\ UNCHANGED <<phase, aux>>

Spec == Init /\ [][Next]_vars

(***************************************************************************)
(* The encoder alone: morse() with any of the encoder's texts, and a tick  *)
(* long enough to end whatever is live, which turns the written buffer     *)
(* into the live one and clears the header of the other.  Every content a  *)
(* buffer can hold when morse_encode is called on it comes about this way: *)
(* the engine writes a buffer only through morse_encode and through        *)
(* morse_encode_len(buf, 0).                                               *)
(***************************************************************************)
EncoderSubmit == \E s \in EncoderTexts : Morse(s, FALSE)

EncoderTick == Update(LongTick)

EncoderNext ==
    \/ EncoderSubmit /\ UNCHANGED <<phase, aux>>
    \/ EncoderTick /\ UNCHANGED <<phase, aux>>

SpecEncoder == Init /\ [][EncoderNext]_vars

(***************************************************************************)
(* Queuing behind a repeating message.  After any sequence of calls that   *)
(* leaves a message live and repeating, morse(b, false) is called with a   *)
(* text b the encoder accepts, and only ticks follow.  From the call on,   *)
(* aux.shadow is the engine as it would be without that call: it takes the *)
(* same ticks, and aux.shadow_called and aux.shadow_value are what its     *)
(* sink gets.  The phase is "queued" until a tick whose bit index reaches  *)
(* the live length, "swapped" from that tick until the next such tick,     *)
(* and "done" from then on.                                                *)
(***************************************************************************)
PassEnded(l) == l.called /\ l.bit_index >= l.live_len

QueueBehindRepeat ==
    /\ phase = "start"
    /\ morse_len(LiveBuf) > 0
    /\ morse_repeat
    /\ \E s \in Texts :
          /\ morse(Engine, s, FALSE).ok
          /\ Morse(s, FALSE)
          /\ aux' = [on |-> TRUE, a_buf |-> morse_live_buf,
                     a_len |-> morse_len(LiveBuf), b |-> s,
                     shadow |-> Engine, shadow_called |-> FALSE,
                     shadow_value |-> FALSE, seen_on |-> FALSE]
    /\ phase' = "queued"

QueuedTick ==
    /\ phase = "queued"
    /\ \E elapsed_ms \in ElapsedMs :
          /\ Update(elapsed_ms)
          /\ \E sr \in {morse_update(aux.shadow, elapsed_ms)} :
             \E sv \in (IF sr.called THEN SinkValues(sr.m, sr.bit_index)
                        ELSE {FALSE}) :
                aux' = [aux EXCEPT !.shadow = sr.m,
                                   !.shadow_called = sr.called,
                                   !.shadow_value = sv,
                                   !.seen_on = @ \/ (sv /\ ~PassEnded(sr))]
    /\ phase' = IF PassEnded(last') THEN "swapped" ELSE "queued"

SwappedTick ==
    /\ phase = "swapped"
    /\ Tick
    /\ phase' = IF PassEnded(last') THEN "done" ELSE "swapped"
    /\ UNCHANGED aux

DoneTick ==
    /\ phase = "done"
    /\ Tick
    /\ UNCHANGED <<phase, aux>>

QueueNext ==
    \/ phase = "start" /\ Next
    \/ QueueBehindRepeat
    \/ QueuedTick
    \/ SwappedTick
    \/ DoneTick

SpecQueue == Init /\ [][QueueNext]_vars

(***************************************************************************)
(* Stopping a live message.  After any sequence of calls that leaves a     *)
(* message live, morse_stop() is called and only ticks follow.  aux keeps  *)
(* the live pointer and the two lengths as the stop found them, and        *)
(* whether a tick since has wrapped elapsed_time.  The phase is "stopped"  *)
(* until a tick whose bit index reaches the live length and "yielded"      *)
(* after it, where the scenario ends.  Ticks of more than 0 ms keep        *)
(* arriving: that is the fairness condition.                               *)
(***************************************************************************)
StopLive ==
    /\ phase = "start"
    /\ morse_len(LiveBuf) > 0
    /\ Stop
    /\ phase' = "stopped"
    /\ aux' = [on |-> TRUE, live_buf |-> morse_live_buf,
               live_len |-> morse_len(LiveBuf),
               next_len |-> morse_len(NextBuf), wrapped |-> FALSE]

StoppedUpdate(elapsed_ms) ==
    /\ phase = "stopped"
    /\ Update(elapsed_ms)
    /\ phase' = IF PassEnded(last') THEN "yielded" ELSE "stopped"
    /\ aux' = [aux EXCEPT !.wrapped = @ \/ last'.wrapped]

Wrapped == phase = "stopped" /\ aux.wrapped

StoppedTick == \E elapsed_ms \in ElapsedMs : StoppedUpdate(elapsed_ms)

StoppedTickPositive ==
    \E elapsed_ms \in ElapsedMs \ {ToU32(0)} : StoppedUpdate(elapsed_ms)

StopNext ==
    \/ phase = "start" /\ Next
    \/ StopLive
    \/ StoppedTick

SpecStop == Init /\ [][StopNext]_vars /\ WF_vars(StoppedTickPositive)

(***************************************************************************)
(* What an emptied buffer still holds.  morse(s, false) with "E" or with   *)
(* "00", which does not fit and leaves its first units in the buffer under *)
(* a zeroed header, and ticks of one dot: every tick reads inside the      *)
(* live buffer.                                                            *)
(***************************************************************************)
StaleTexts == { <<69>>, <<48, 48>> }

StaleSubmit == \E s \in StaleTexts : Morse(s, FALSE)

StaleTick == Update(ToU32(morse_dot_duration))

StaleNext ==
    \/ StaleSubmit /\ UNCHANGED <<phase, aux>>
    \/ StaleTick /\ UNCHANGED <<phase, aux>>

SpecStale == Init /\ [][StaleNext]_vars

(***************************************************************************)
(* What the properties below are stated with: the format of section 3 of   *)
(* the specification (a big-endian length header, then one bit per unit,   *)
(* least significant bit first) and the emission rule of section 4.2,      *)
(* written down independently of the encoder above.                        *)
(***************************************************************************)
Header(buf) == buf[0] * 2 ^ 24 + buf[1] * 2 ^ 16 + buf[2] * 2 ^ 8 + buf[3]

ContentBit(buf, k) == (buf[4 + (k \div 8)] \div (2 ^ (k % 8))) % 2

\* The content bits a buffer of MORSE_MAX_LEN bytes has room for.
Capacity == 8 * MORSE_MAX_LEN - 32

\* The three spaces that end a message, four units each.
TerminatorUnits == 3 * 4

IsDigit(ch) == ch >= 48 /\ ch <= 57

IsUpper(ch) == ch >= 65 /\ ch <= 90

IsLower(ch) == ch >= 97 /\ ch <= 122

IsAlnum(ch) == IsDigit(ch) \/ IsUpper(ch) \/ IsLower(ch)

UpperOf(ch) == IF IsLower(ch) THEN ch - 32 ELSE ch

\* A text of digits, letters of either case and spaces.
PlainText(s) == \A k \in 1 .. Len(s) : s[k] = 32 \/ IsAlnum(s[k])

\* A text with a character that is no space and, upper-cased, lies outside
\* '0'..'Z'.
HasInvalidChar(s) ==
    \E k \in 1 .. Len(s) :
        s[k] # 32 /\ (UpperOf(s[k]) < 48 \/ UpperOf(s[k]) > 90)

\* The code-table entry of a letter or digit.
CodeEntry(ch) == letters[(UpperOf(ch) - 48) + 1]

RECURSIVE SeriesCost(_)
SeriesCost(series) ==
    IF series = <<>> THEN 0
    ELSE (IF Head(series) = "." THEN 2 ELSE 4) + SeriesCost(Tail(series))

UnitCost(ch) == IF ch = 32 THEN 4 ELSE 2 + SeriesCost(CodeEntry(ch))

RECURSIVE TextCost(_)
TextCost(s) == IF s = <<>> THEN 0 ELSE UnitCost(Head(s)) + TextCost(Tail(s))

Run(bit, n) == [j \in 1 .. n |-> bit]

RECURSIVE SeriesBits(_)
SeriesBits(series) ==
    IF series = <<>> THEN <<>>
    ELSE <<0>> \o Run(1, IF Head(series) = "." THEN 1 ELSE 3)
              \o SeriesBits(Tail(series))

CharBits(ch) ==
    IF ch = 32 THEN Run(0, 4) ELSE Run(0, 2) \o SeriesBits(CodeEntry(ch))

RECURSIVE TextBits(_)
TextBits(s) == IF s = <<>> THEN <<>> ELSE CharBits(Head(s)) \o TextBits(Tail(s))

\* The units of the message made from the plain text s.
MessageBits(s) == TextBits(s) \o Run(0, TerminatorUnits)

\* The buffer holds the message made from s: the header is its number of
\* units, and the content bits below the header's value are its units.
Holds(buf, s) ==
    /\ Header(buf) = Len(MessageBits(s))
    /\ \A k \in 0 .. (Len(MessageBits(s)) - 1) :
          ContentBit(buf, k) = MessageBits(s)[k + 1]

Idle == Header(LiveBuf) = 0 /\ Header(NextBuf) = 0

(***************************************************************************)
(* C1.  A text of digits, letters and spaces whose units, with the twelve  *)
(* of the terminator, fit the buffer is encoded with success, and the      *)
(* length header then holds the sum of the characters' unit costs plus 12. *)
(***************************************************************************)
C1_LengthHeader ==
    (/\ last.op = "morse"
     /\ PlainText(last.s)
     /\ TextCost(last.s) + TerminatorUnits <= Capacity)
    => (last.ok /\ Header(NextBuf) = TextCost(last.s) + TerminatorUnits)

\* "e e" (lower case, a space, the buffer filled) written over a message.
C1_Witness ==
    /\ last.op = "morse"
    /\ last.ok
    /\ last.len_before > 0
    /\ \E k \in 1 .. Len(last.s) : IsLower(last.s[k])
    /\ \E k \in 1 .. Len(last.s) : last.s[k] = 32
    /\ Header(NextBuf) = TextCost(last.s) + TerminatorUnits

(***************************************************************************)
(* C2.  morse() with a text that has an invalid character reports failure  *)
(* and leaves the length header of the next buffer at 0.                   *)
(***************************************************************************)
C2_InvalidCharEmptiesBuffer ==
    (last.op = "morse" /\ HasInvalidChar(last.s))
    => (~last.ok /\ Header(NextBuf) = 0)

(***************************************************************************)
(* C3.  A text of digits, letters and spaces whose units, with the twelve  *)
(* of the terminator, do not fit the buffer makes the encoder fail and     *)
(* leaves the length header of the next buffer at 0, whatever the buffer   *)
(* held.                                                                   *)
(***************************************************************************)
C3_OverflowEmptiesBuffer ==
    (/\ last.op = "morse"
     /\ PlainText(last.s)
     /\ TextCost(last.s) + TerminatorUnits > Capacity)
    => (~last.ok /\ Header(NextBuf) = 0)

\* The text fits, the terminator does not, and the buffer held a message.
C3_Witness ==
    /\ last.op = "morse"
    /\ PlainText(last.s)
    /\ TextCost(last.s) <= Capacity
    /\ TextCost(last.s) + TerminatorUnits > Capacity
    /\ last.len_before > 0
    /\ ~last.ok
    /\ Header(NextBuf) = 0

(***************************************************************************)
(* C4.  In every reachable state each buffer whose length header is above  *)
(* 0 holds the message made from one of the texts: the header is that      *)
(* message's number of units and the content bits are its units.           *)
(***************************************************************************)
C4_HeaderConsistent ==
    \A buf \in {morse_buf1, morse_buf2} :
        Header(buf) > 0 =>
            \E s \in Texts : PlainText(s) /\ Holds(buf, s)

(***************************************************************************)
(* C5.  morse(), whether the encoder succeeds or fails, leaves the live    *)
(* buffer, the two roles and elapsed_time as they were.                    *)
(***************************************************************************)
C5_SubmitFrame ==
    [][last'.op = "morse" =>
          /\ morse_live_buf' = morse_live_buf
          /\ morse_next_buf' = morse_next_buf
          /\ LiveBuf' = LiveBuf
          /\ morse_elapsed_time' = morse_elapsed_time]_vars

\* A failed morse() made while a message is live and partly played.
C5_Witness ==
    /\ last.op = "morse"
    /\ ~last.ok
    /\ Header(LiveBuf) > 0
    /\ morse_elapsed_time > 0

(***************************************************************************)
(* C7.  After morse(s, true) with a valid text and both buffers empty, and *)
(* ticks only: no swap before the first tick, exactly one swap from the    *)
(* first tick on, and from then on the message is in the live buffer,      *)
(* repeat is set and every tick calls the sink.                            *)
(***************************************************************************)
C7_RepeatStable ==
    (repeat_run.on /\ PlainText(repeat_run.s)) =>
        /\ repeat_run.ticks = 0 => repeat_run.swaps = 0
        /\ repeat_run.ticks > 0 =>
              /\ repeat_run.swaps = 1
              /\ morse_repeat
              /\ Holds(LiveBuf, repeat_run.s)
              /\ last.op = "update"
              /\ last.called

\* Many ticks into the run, the last of them at the end of a pass.
C7_Witness ==
    /\ repeat_run.on
    /\ repeat_run.ticks = 2
    /\ last.op = "update"
    /\ last.live_len > 0
    /\ last.bit_index >= last.live_len

(***************************************************************************)
(* C8.  With both length headers 0, morse_update does not call the sink    *)
(* and changes nothing of the engine, whatever elapsed_ms is.              *)
(***************************************************************************)
C8_IdleTick ==
    [][(Idle /\ last'.op = "update") =>
          (~last'.called /\ engine_vars' = engine_vars)]_vars

\* A long tick made with both buffers empty and time left on the clock.
C8_Witness ==
    /\ last.op = "update"
    /\ last.elapsed_ms = LongTick
    /\ ~last.called
    /\ Idle
    /\ morse_elapsed_time > 0

(***************************************************************************)
(* C9.  morse_interrupt zeroes the live length header and clears repeat,   *)
(* and leaves the roles, the next buffer and repeat_next as they were; and *)
(* once an interrupt has left both buffers empty, no tick calls the sink   *)
(* until morse() is called.                                                *)
(***************************************************************************)
C9_Interrupt ==
    /\ [][last'.op = "interrupt" =>
            /\ Header(LiveBuf') = 0
            /\ ~morse_repeat'
            /\ morse_live_buf' = morse_live_buf
            /\ morse_next_buf' = morse_next_buf
            /\ NextBuf' = NextBuf
            /\ morse_repeat_next' = morse_repeat_next]_vars
    /\ [](quiet /\ last.op = "update" => ~last.called)

\* A tick after an interrupt that cut a message short with nothing queued.
C9_Witness ==
    /\ quiet
    /\ last.op = "update"
    /\ ~last.called
    /\ \E k \in 0 .. (Capacity - 1) : ContentBit(LiveBuf, k) = 1
    /\ morse_elapsed_time > 0

(***************************************************************************)
(* C6.  A valid message b queued with repeat = false behind a live,        *)
(* repeating message: until the tick that ends the live message's pass,    *)
(* the roles and the live length stay as they were and every tick gives    *)
(* the sink what it gets without the call; at that tick b becomes live     *)
(* with repeat clear; and the tick that ends b's pass leaves both buffers  *)
(* empty, so b is not played again.                                        *)
(***************************************************************************)
C6_QueueKeepsPlayback ==
    /\ phase = "queued" =>
          /\ morse_live_buf = aux.a_buf
          /\ Header(LiveBuf) = aux.a_len
          /\ last.op = "update" =>
                (last.called = aux.shadow_called
                 /\ last.value = aux.shadow_value)
    /\ phase = "swapped" =>
          /\ morse_live_buf # aux.a_buf
          /\ ~morse_repeat
          /\ Holds(LiveBuf, aux.b)
    /\ phase = "done" => Idle

\* The whole scenario, with an `on' unit played between the call and the swap.
C6_Witness == phase = "done" /\ aux.seen_on /\ Idle

(***************************************************************************)
(* C10.  After morse_stop() on a live message, with ticks only: until the  *)
(* tick whose bit index reaches the live length the roles and both lengths *)
(* stay as they were; that tick makes the queued message live if there is  *)
(* one and leaves both buffers empty if not; and, ticks of more than 0 ms  *)
(* arriving for ever, that tick comes.                                     *)
(***************************************************************************)
C10_NotCutShort ==
    /\ phase = "stopped" =>
          /\ morse_live_buf = aux.live_buf
          /\ Header(LiveBuf) = aux.live_len
          /\ Header(NextBuf) = aux.next_len
    /\ phase = "yielded" =>
          IF aux.next_len > 0
          THEN /\ morse_live_buf # aux.live_buf
               /\ Header(LiveBuf) = aux.next_len
               /\ Header(NextBuf) = 0
          ELSE Idle

C10_StopYields ==
    /\ []C10_NotCutShort
    /\ (phase = "stopped") ~> (phase = "yielded")

\* The same, for the runs in which no tick wraps the 32-bit elapsed_time.
C10_StopYieldsUnlessWrapped ==
    /\ []C10_NotCutShort
    /\ (phase = "stopped") ~> (phase = "yielded" \/ Wrapped)

(***************************************************************************)
(* C11.  When morse_stop() returns, the length header of the next buffer   *)
(* is 0: a message queued before the stop is dropped.                      *)
(***************************************************************************)
C11_StopClearsNext == last.op = "stop" => Header(NextBuf) = 0

(***************************************************************************)
(* C12.  A text with one of the characters 58..64, which lie between '9'   *)
(* and 'A' and have empty rows in the code table, is rejected: morse()     *)
(* reports failure for it, so no such row is ever looked up.               *)
(***************************************************************************)
C12_GapCharsRejected ==
    (last.op = "morse" /\ \E k \in 1 .. Len(last.s) : last.s[k] \in 58 .. 64)
    => ~last.ok

(***************************************************************************)
(* C13.  A tick that calls the sink and leaves the live pointer where it   *)
(* was, a tick at the end of a repeated pass included, reads a bit index   *)
(* below the length of the live message.                                   *)
(***************************************************************************)
C13_ReadsWrittenContent ==
    [][(last'.op = "update" /\ last'.called
        /\ morse_live_buf' = morse_live_buf)
       => last'.bit_index < Header(LiveBuf')]_vars

(***************************************************************************)
(* C18.  Every tick that calls the sink reads a bit position, bit_index +  *)
(* 32, below 8 * MORSE_MAX_LEN: the read stays inside the live buffer.     *)
(***************************************************************************)
C18_ReadInsideBuffer ==
    (last.op = "update" /\ last.called)
    => last.bit_index + 32 < 8 * MORSE_MAX_LEN

(***************************************************************************)
(* C14.  A text of digits, letters and spaces, and the same text with any  *)
(* of its letters in the other case, encoded into the same buffer, give    *)
(* the same result and the same buffer: the same length header and the     *)
(* same content bits.                                                      *)
(***************************************************************************)
SwapCase(ch) ==
    IF IsLower(ch) THEN ch - 32 ELSE IF IsUpper(ch) THEN ch + 32 ELSE ch

RECURSIVE CaseVariants(_)
CaseVariants(s) ==
    IF s = <<>> THEN { <<>> }
    ELSE { <<ch>> \o t : ch \in {Head(s), SwapCase(Head(s))},
                         t \in CaseVariants(Tail(s)) }

C14_CaseInsensitive ==
    [][(last'.op = "morse" /\ PlainText(last'.s)) =>
          \A t \in CaseVariants(last'.s) \ {last'.s} :
              morse_encode(NextBuf, t, MORSE_MAX_LEN)
                  = [buf |-> NextBuf', ok |-> last'.ok]]_vars

\* A text of two letters in lower case, encoded over an older message: the
\* buffer holds the message of each of its four spellings.
C14_Witness ==
    /\ last.op = "morse"
    /\ last.ok
    /\ last.len_before > 0
    /\ Len(last.s) = 2
    /\ \A k \in 1 .. 2 : IsLower(last.s[k])
    /\ \A t \in CaseVariants(last.s) : Holds(NextBuf, t)

(***************************************************************************)
(* C15.  The content of a buffer as runs of equal units, and what the runs *)
(* of a text are to be: a dot is 1 `on' unit and a dash 3; the `off' run   *)
(* before a symbol is 1 inside a character, 3 before the first symbol of a *)
(* character that follows a character, and 7 before the first symbol of a  *)
(* character that follows a space.  For a successfully encoded text of     *)
(* digits, letters and single spaces between words, the runs of the buffer *)
(* are those, in order.  (The run before the first symbol of the text and  *)
(* the one after the last are not part of the statement.)                  *)
(***************************************************************************)
ContentBits(buf) == [k \in 1 .. Header(buf) |-> ContentBit(buf, k - 1)]

\* The last position of the run of equal bits that starts at position k.
RunEnd(bits, k) ==
    CHOOSE e \in k .. Len(bits) :
        /\ \A j \in k .. e : bits[j] = bits[k]
        /\ e = Len(bits) \/ bits[e + 1] # bits[k]

RECURSIVE Runs(_, _)
Runs(bits, k) ==
    IF k > Len(bits) THEN <<>>
    ELSE <<[bit |-> bits[k], n |-> RunEnd(bits, k) - k + 1]>>
             \o Runs(bits, RunEnd(bits, k) + 1)

SingleSpaced(s) ==
    \A k \in 1 .. Len(s) :
        s[k] = 32 => /\ k > 1
                     /\ k < Len(s)
                     /\ s[k - 1] # 32
                     /\ s[k + 1] # 32

GapBefore(s, k, j) ==
    IF j > 1 THEN 1
    ELSE IF k = 1 THEN 0
    ELSE IF s[k - 1] = 32 THEN 7 ELSE 3

CharSymbols(s, k) ==
    [j \in 1 .. Len(CodeEntry(s[k])) |->
        [on |-> IF CodeEntry(s[k])[j] = "." THEN 1 ELSE 3,
         gap |-> GapBefore(s, k, j)]]

RECURSIVE Symbols(_, _)
Symbols(s, k) ==
    IF k > Len(s) THEN <<>>
    ELSE (IF s[k] = 32 THEN <<>> ELSE CharSymbols(s, k)) \o Symbols(s, k + 1)

RunsMatch(runs, symbols) ==
    /\ Len(runs) = 2 * Len(symbols) + 1
    /\ \A j \in 1 .. Len(symbols) :
          /\ runs[2 * j - 1].bit = 0
          /\ j > 1 => runs[2 * j - 1].n = symbols[j].gap
          /\ runs[2 * j].bit = 1
          /\ runs[2 * j].n = symbols[j].on

C15_Gaps ==
    (/\ last.op = "morse"
     /\ last.ok
     /\ PlainText(last.s)
     /\ SingleSpaced(last.s))
    => RunsMatch(Runs(ContentBits(NextBuf), 1), Symbols(last.s, 1))

\* Two words encoded over an older message: an `off' run of 7 between them.
C15_Witness ==
    /\ last.op = "morse"
    /\ last.ok
    /\ last.len_before > 0
    /\ SingleSpaced(last.s)
    /\ \E k \in 1 .. Len(last.s) : last.s[k] = 32
    /\ Runs(ContentBits(NextBuf), 1)[3] = [bit |-> 0, n |-> 7]

(***************************************************************************)
(* C16.  A tick made with a buffer non-empty.  TickSum is elapsed_time +   *)
(* elapsed_ms and TickIndex that sum over the dot duration, both in the    *)
(* 32-bit unsigned arithmetic of the code.  With TickIndex below the live  *)
(* length the tick changes nothing but elapsed_time, which becomes the     *)
(* sum.  Otherwise elapsed_time becomes 0 and, repeat being clear, the     *)
(* roles are exchanged, repeat takes repeat_next, repeat_next is cleared   *)
(* and the new next buffer's header becomes 0; repeat being set, roles,    *)
(* flags and headers stay.                                                 *)
(***************************************************************************)
TickSum == AddU32(ToU32(morse_elapsed_time), last'.elapsed_ms)

TickIndex == DivU32(TickSum, morse_dot_duration)

RolesFlagsLengthsKept ==
    /\ morse_live_buf' = morse_live_buf
    /\ morse_next_buf' = morse_next_buf
    /\ morse_repeat' = morse_repeat
    /\ morse_repeat_next' = morse_repeat_next
    /\ Header(morse_buf1') = Header(morse_buf1)
    /\ Header(morse_buf2') = Header(morse_buf2)

RolesExchanged ==
    /\ morse_live_buf' = morse_next_buf
    /\ morse_next_buf' = morse_live_buf
    /\ morse_repeat' = morse_repeat_next
    /\ morse_repeat_next' = FALSE
    /\ Header(NextBuf') = 0
    /\ Header(LiveBuf') = Header(NextBuf)

C17_SwapTickBit ==
    [][(/\ last'.op = "update"
        /\ last'.called
        /\ morse_live_buf' # morse_live_buf
        /\ InBuffer(TickIndex))
       => last'.value = (ContentBit(LiveBuf', TickIndex) = 1)]_vars

\* The first tick after morse_interrupt() with a message queued: the sink
\* gets the dot at index 3 of the new message, not the silence at its start.
C17_Witness ==
    /\ last.op = "update"
    /\ last.called
    /\ last.live_len = 0
    /\ last.bit_index = 3
    /\ last.value
    /\ ContentBit(LiveBuf, 3) = 1
    /\ ContentBit(LiveBuf, 0) = 0

(***************************************************************************)
(* C19.  The tick that leaves both buffers empty, the last of a message    *)
(* with nothing queued behind it, calls the sink with FALSE.               *)
(***************************************************************************)
C19_FinalTickOff == (last.op = "update" /\ last.called /\ Idle) => ~last.value

=============================================================================
